---- MODULE Spec2Model ----
(***************************************************************************)
(* Model of src/src/mitsuba/mtsutil.cpp: the command-line bootstrap        *)
(* ubi_main (option parsing, worker-pool assembly, scheduler start) and    *)
(* the UtilityPlugin dynamic module wrapper.                               *)
(*                                                                         *)
(* Strings are sequences of one-character strings.                         *)
(***************************************************************************)
EXTENDS Integers, Sequences, FiniteSets, TLC

(***************************************************************************)
(* Bounds of the explored inputs.                                          *)
(***************************************************************************)
\* longest single -c host text explored character by character
MaxLen == 5
\* longest single -p count text explored character by character
MaxCountLen == 2
\* most options on a command line built from short arguments
MaxOpts == 2
\* largest value getProcessorCount() reports
MaxProcs == 2
\* most UtilityPlugin constructions in one run of the loader
MaxLoads == 3
\* most lines of a long host file
MaxLines == 2

(***************************************************************************)
(* Program constants.                                                      *)
(***************************************************************************)
MTS_DEFAULT_PORT == 7554

(***************************************************************************)
(* Strings.                                                                *)
(***************************************************************************)
HostChars == {"a", "1", ":", "@", ";"}
CountChars == {"-", "0", "1", "x"}
TunnelChars == {"a", ":", "@"}
PortChars == {"1", "a", "-", "+", " "}

RECURSIVE StringsOfLen(_, _)
StringsOfLen(chars, n) ==
    IF n = 0 THEN {<<>>}
    ELSE {Append(s, c) : s \in StringsOfLen(chars, n - 1), c \in chars}

StringsUpTo(chars, n) == UNION {StringsOfLen(chars, k) : k \in 0..n}

\* the empty string and every one-character string
ShortStrings(chars) == {<<>>} \cup {<<c>> : c \in chars}

RECURSIVE SeqsOfLen(_, _)
SeqsOfLen(S, n) ==
    IF n = 0 THEN {<<>>}
    ELSE {Append(s, x) : s \in SeqsOfLen(S, n - 1), x \in S}

SeqsUpTo(S, n) == UNION {SeqsOfLen(S, k) : k \in 0..n}

\* std::string::find(c) != npos
Contains(s, c) == \E k \in 1..Len(s) : s[k] = c

\* tokenize(string, delim): maximal runs of non-delimiter characters, in
\* order; empty tokens are dropped
RECURSIVE TokenizeFrom(_, _, _, _)
TokenizeFrom(s, delim, k, cur) ==
    IF k > Len(s)
    THEN (IF cur = <<>> THEN <<>> ELSE <<cur>>)
    ELSE IF s[k] \in delim
         THEN (IF cur = <<>> THEN <<>> ELSE <<cur>>)
              \o TokenizeFrom(s, delim, k + 1, <<>>)
         ELSE TokenizeFrom(s, delim, k + 1, Append(cur, s[k]))

tokenize(s, delim) == TokenizeFrom(s, delim, 1, <<>>)

Digits == {"0", "1", "2", "3", "4", "5", "6", "7", "8", "9"}

DigitVal(c) ==
    CASE c = "0" -> 0 [] c = "1" -> 1 [] c = "2" -> 2 [] c = "3" -> 3
      [] c = "4" -> 4 [] c = "5" -> 5 [] c = "6" -> 6 [] c = "7" -> 7
      [] c = "8" -> 8 [] c = "9" -> 9

\* the digits of s from position k on: [val, end] with end the first
\* position that is no digit
RECURSIVE ScanDigits(_, _, _)
ScanDigits(s, k, acc) ==
    IF k <= Len(s) /\ s[k] \in Digits
    THEN ScanDigits(s, k + 1, acc * 10 + DigitVal(s[k]))
    ELSE [val |-> acc, end |-> k]

RECURSIVE SkipSpace(_, _)
SkipSpace(s, k) ==
    IF k <= Len(s) /\ s[k] = " " THEN SkipSpace(s, k + 1) ELSE k

\* strtol(s, &end_ptr, 10): leading blanks, an optional sign, then digits.
\* end is the position end_ptr points to (Len(s) + 1 is the terminating
\* '\0'); with no digit at all end_ptr is the start. The texts explored have
\* fewer digits than an int holds, so the value is stored unchanged.
strtol(s) ==
    LET b == SkipSpace(s, 1)
        neg == b <= Len(s) /\ s[b] = "-"
        d == IF b <= Len(s) /\ s[b] \in {"-", "+"} THEN b + 1 ELSE b
        r == ScanDigits(s, d, 0)
    IN  IF r.end = d
        THEN [val |-> 0, end |-> 1]
        ELSE [val |-> (IF neg THEN 0 - r.val ELSE r.val), end |-> r.end]

\* faulty variant: one character after the number is tolerated
EndPtrNotNul_last(s, r) == r.end < Len(s)

\* *end_ptr != '\0'
EndPtrNotNul(s, r) == r.end <= Len(s)

(***************************************************************************)
(* The command line and its environment.                                   *)
(***************************************************************************)
\* a host-list file: whether it can be opened, and its lines, each a
\* sequence of blank-separated words
NoFile == [ok |-> FALSE, lines |-> <<>>]
FileChars == {"a", "#"}
ShallowFiles ==
    {NoFile, [ok |-> TRUE, lines |-> <<>>]}
    \cup {[ok |-> TRUE, lines |-> <<<<w>>>>] : w \in ShortStrings(FileChars) \ {<<>>}}

\* a line of a host file is the sequence of its words, the text between
\* white space: no word, one word, or two words
FileLines ==
    LET words == ShortStrings(FileChars) \ {<<>>}
    IN  {<<>>} \cup {<<w>> : w \in words} \cup {<<w, v>> : w \in words, v \in words}

\* host files of several lines
DeepFiles == {[ok |-> TRUE, lines |-> ls] : ls \in SeqsUpTo(FileLines, MaxLines)}

Option(o, a, f) == [opt |-> o, arg |-> a, file |-> f]

\* options with an argument of at most one character
ShallowOptions ==
    {Option("c", t, NoFile) : t \in ShortStrings(HostChars)}
    \cup {Option("p", t, NoFile) : t \in ShortStrings(CountChars)}
    \cup {Option("s", <<"f">>, f) : f \in ShallowFiles}
    \cup {Option(o, <<"a">>, NoFile) : o \in {"a", "n"}}
    \cup {Option(o, <<>>, NoFile) : o \in {"q", "v", "h", "?"}}

\* one option with a long argument or a long file
DeepOptions ==
    {Option("c", t, NoFile) : t \in StringsUpTo(HostChars, MaxLen)}
    \cup {Option("p", t, NoFile) : t \in StringsUpTo(CountChars, MaxCountLen)}
    \* user@ followed by a long rest
    \cup {Option("c", <<"a", "@">> \o t, NoFile) : t \in StringsUpTo(TunnelChars, MaxLen)}
    \cup {Option("s", <<"f">>, f) : f \in DeepFiles}
    \* host: followed by a port text
    \cup {Option("c", <<"a", ":">> \o t, NoFile) : t \in StringsUpTo(PortChars, MaxCountLen)}

CmdLines == SeqsUpTo(ShallowOptions, MaxOpts) \cup {<<o>> : o \in DeepOptions}

(***************************************************************************)
(* Values.                                                                 *)
(***************************************************************************)
\* an exception: its C++ type, what it reports, and the index of the host
\* whose processing raised it (-1 outside the host loop)
Exc(t, msg, host) == [type |-> t, what |-> msg, at |-> host]
NoExc == Exc("none", "none", -1)
\* what SLog(EError, ...) throws: a message logged at EError level is raised
\* as a std::runtime_error, which the handlers of lines 71, 234 and 259 catch
RuntimeError(msg) == Exc("runtime_error", msg, -1)
ExcTypes == {"runtime_error", "other"}

NoStream == [type |-> "none", user |-> <<>>, host |-> <<>>, port |-> 0, path |-> <<>>]
SocketStream(host, port) ==
    [type |-> "socket", user |-> <<>>, host |-> host, port |-> port, path |-> <<>>]
SSHStream(user, host, path) ==
    [type |-> "ssh", user |-> user, host |-> host, port |-> 0, path |-> path]

\* formatString("wrk%i", i), formatString("net%i", i)
WorkerName(prefix, i) == [kind |-> prefix, id |-> i]
LocalWorker(i) == [name |-> WorkerName("wrk", i), stream |-> NoStream]
\* faulty variant: the remote workers are numbered from 1
RemoteWorker_fromOne(i, s) == [name |-> WorkerName("net", i + 1), stream |-> s]
RemoteWorker(i, s) == [name |-> WorkerName("net", i), stream |-> s]

DefaultPath == <<"~", "/", "m", "i", "t", "s", "u", "b", "a">>

VARIABLES
    \* the environment
    opts,            \* the options of argv, in order
    hasUtility,      \* whether a non-option argument follows them
    processorCount,  \* getProcessorCount()
    \* ubi_main
    pc, optind, nprocs, networkHosts, nodeName, quietMode, logLevel,
    paths, appenders, hosts, i, stream, exc, retval, helpCount, cerr,
    \* the scheduler, the transports and the log, as ubi_main drives them
    workers, started, streams, warnings,
    \* UtilityPlugin and the platform loader under it
    modules,         \* what dlopen and dlsym find at each path
    plugins,         \* every UtilityPlugin constructed so far
    lpc,             \* the position inside the constructor, or "idle"
    cur,             \* the plugin under construction
    osOpen,          \* the plugins whose dlopen handle is not yet closed
    refreshed,       \* calls of Class::staticInitialization() by the constructor
    inflight,        \* the exception being handled inside the constructor
    lexc,            \* the exception the last constructor left to its caller
    called           \* the last call of getDescription() or createInstance()

envVars == <<opts, hasUtility, processorCount>>
mainVars == <<pc, optind, nprocs, networkHosts, nodeName, quietMode, logLevel,
              paths, appenders, hosts, i, stream, exc, retval, helpCount, cerr,
              workers, started, streams, warnings>>
loaderVars == <<modules, plugins, lpc, cur, osOpen, refreshed, inflight, lexc,
                called>>
vars == <<envVars, mainVars, loaderVars>>

\* argc, each option being one word of argv ("-cHOSTS")
argc == 1 + Len(opts) + (IF hasUtility THEN 1 ELSE 0)

(***************************************************************************)
(* ubi_main: option parsing.                                               *)
(***************************************************************************)
optVars == <<nprocs, networkHosts, nodeName, quietMode, logLevel, paths>>
loopVars == <<hosts, i, stream>>
schedVars == <<workers, started, streams, warnings>>
outVars == <<exc, retval, helpCount, cerr>>

MainInit ==
    /\ pc = "entry"
    /\ optind = 1
    /\ nprocs = 0
    /\ networkHosts = <<>>
    /\ nodeName = <<>>
    /\ quietMode = FALSE
    /\ logLevel = "EInfo"
    /\ paths = <<>>
    /\ appenders = <<[kind |-> "cout", name |-> <<>>]>>
    /\ hosts = <<>>
    /\ i = 0
    /\ stream = NoStream
    /\ exc = NoExc
    /\ retval = 0
    /\ helpCount = 0
    /\ cerr = <<>>
    /\ workers = <<>>
    /\ started = 0
    /\ streams = <<>>
    /\ warnings = 0

\* a throw inside the try block of ubi_main: control moves to its handlers
Throw(e) ==
    /\ exc' = e
    /\ pc' = "catch"

\* help(); return 0;
HelpAndReturn ==
    /\ helpCount' = helpCount + 1
    /\ retval' = 0
    /\ pc' = "done"

\* argc < 2: the usage text, exit status 0
ShowUsage ==
    /\ pc = "entry"
    /\ argc < 2
    /\ HelpAndReturn
    /\ UNCHANGED <<envVars, loaderVars, optind, optVars, appenders, loopVars,
                   schedVars, exc, cerr>>

\* faulty variant: the first local worker is registered before the option loop
Enter_eager ==
    /\ pc = "entry"
    /\ ~(argc < 2)
    /\ nprocs' = processorCount
    /\ nodeName' = <<"h">>
    /\ networkHosts' = <<>>
    /\ quietMode' = FALSE
    /\ logLevel' = "EInfo"
    /\ optind' = 1
    /\ pc' = "getopt"
    /\ workers' = <<LocalWorker(0)>>
    /\ UNCHANGED <<envVars, loaderVars, paths, appenders, loopVars, started,
                   streams, warnings, outVars>>

\* the default settings, then the option loop
Enter ==
    /\ pc = "entry"
    /\ ~(argc < 2)
    /\ nprocs' = processorCount
    /\ nodeName' = <<"h">>
    /\ networkHosts' = <<>>
    /\ quietMode' = FALSE
    /\ logLevel' = "EInfo"
    /\ optind' = 1
    /\ pc' = "getopt"
    /\ UNCHANGED <<envVars, loaderVars, paths, appenders, loopVars, schedVars,
                   outVars>>

\* getopt returns the option letter c and steps optind
Getopt(c) ==
    /\ pc = "getopt"
    /\ optind <= Len(opts)
    /\ opts[optind].opt = c
    /\ optind' = optind + 1

optarg == opts[optind].arg

\* case 'a': every path of the ;-separated list joins the search path
OptA ==
    /\ Getopt("a")
    /\ paths' = paths \o tokenize(optarg, {";"})
    /\ UNCHANGED <<envVars, loaderVars, pc, nprocs, networkHosts, nodeName,
                   quietMode, logLevel, appenders, loopVars, schedVars, outVars>>

\* faulty variant: the hosts of -c are put before those gathered so far
OptC_prepend ==
    /\ Getopt("c")
    /\ networkHosts' = optarg \o <<";">> \o networkHosts
    /\ UNCHANGED <<envVars, loaderVars, pc, nprocs, nodeName, quietMode,
                   logLevel, paths, appenders, loopVars, schedVars, outVars>>

\* case 'c'
OptC ==
    /\ Getopt("c")
    /\ networkHosts' = networkHosts \o <<";">> \o optarg
    /\ UNCHANGED <<envVars, loaderVars, pc, nprocs, nodeName, quietMode,
                   logLevel, paths, appenders, loopVars, schedVars, outVars>>

\* the words "is >> host" reads from the file, in order
RECURSIVE FileWords(_)
FileWords(lines) ==
    IF lines = <<>> THEN <<>> ELSE Head(lines) \o FileWords(Tail(lines))

\* the read loop of case 's' over the words of the file
RECURSIVE ReadHosts(_, _)
ReadHosts(nh, words) ==
    IF words = <<>> THEN nh
    ELSE LET host == Head(words)
         IN  IF Len(host) < 1 \/ host[1] = "#"
             THEN ReadHosts(nh, Tail(words))
             ELSE ReadHosts(nh \o <<";">> \o host, Tail(words))

\* case 's'
OptS ==
    /\ Getopt("s")
    /\ \/ /\ ~opts[optind].file.ok
          /\ Throw(RuntimeError("Could not open host file!"))
          /\ UNCHANGED networkHosts
       \/ /\ opts[optind].file.ok
          /\ networkHosts' = ReadHosts(networkHosts, FileWords(opts[optind].file.lines))
          /\ UNCHANGED <<pc, exc>>
    /\ UNCHANGED <<envVars, loaderVars, nprocs, nodeName, quietMode, logLevel,
                   paths, appenders, loopVars, schedVars, retval, helpCount, cerr>>

\* case 'n'
OptN ==
    /\ Getopt("n")
    /\ nodeName' = optarg
    /\ UNCHANGED <<envVars, loaderVars, pc, nprocs, networkHosts, quietMode,
                   logLevel, paths, appenders, loopVars, schedVars, outVars>>

\* case 'v'
OptV ==
    /\ Getopt("v")
    /\ logLevel' = "EDebug"
    /\ UNCHANGED <<envVars, loaderVars, pc, nprocs, networkHosts, nodeName,
                   quietMode, paths, appenders, loopVars, schedVars, outVars>>

\* case 'p'
OptP ==
    /\ Getopt("p")
    /\ LET r == strtol(optarg)
       IN  /\ nprocs' = r.val
           /\ \/ /\ EndPtrNotNul(optarg, r)
                 /\ Throw(RuntimeError("Could not parse the processor count!"))
              \/ /\ ~EndPtrNotNul(optarg, r)
                 /\ UNCHANGED <<pc, exc>>
    /\ UNCHANGED <<envVars, loaderVars, networkHosts, nodeName, quietMode,
                   logLevel, paths, appenders, loopVars, schedVars, retval,
                   helpCount, cerr>>

\* case 'q'
OptQ ==
    /\ Getopt("q")
    /\ quietMode' = TRUE
    /\ UNCHANGED <<envVars, loaderVars, pc, nprocs, networkHosts, nodeName,
                   logLevel, paths, appenders, loopVars, schedVars, outVars>>

\* case 'h' and default (getopt's '?')
OptH ==
    /\ pc = "getopt"
    /\ optind <= Len(opts)
    /\ opts[optind].opt \in {"h", "?"}
    /\ optind' = optind + 1
    /\ HelpAndReturn
    /\ UNCHANGED <<envVars, loaderVars, optVars, appenders, loopVars,
                   schedVars, exc, cerr>>

IsStreamAppender(a) == a.kind \in {"cout", "file"}

\* the removal loop over the appenders, by index, the list shrinking as it goes
RECURSIVE RemoveStreamAppenders(_, _)
RemoveStreamAppenders(apps, k) ==
    IF ~(k < Len(apps)) THEN apps
    ELSE IF IsStreamAppender(apps[k + 1])
         THEN RemoveStreamAppenders(
                  SubSeq(apps, 1, k) \o SubSeq(apps, k + 2, Len(apps)), k + 1)
         ELSE RemoveStreamAppenders(apps, k + 1)

\* getopt returns -1: the logging subsystem is configured
ConfigureLogging ==
    /\ pc = "getopt"
    /\ optind > Len(opts)
    /\ appenders' = RemoveStreamAppenders(appenders, 0)
                    \o <<[kind |-> "file", name |-> nodeName]>>
                    \o (IF ~quietMode THEN <<[kind |-> "cout", name |-> <<>>]>>
                        ELSE <<>>)
    /\ i' = 0
    /\ pc' = "locals"
    /\ UNCHANGED <<envVars, loaderVars, optind, optVars, hosts, stream,
                   schedVars, outVars>>

(***************************************************************************)
(* ubi_main: the scheduling subsystem.                                     *)
(***************************************************************************)
\* scheduler->registerWorker(new LocalWorker(formatString("wrk%i", i)))
RegisterLocal ==
    /\ pc = "locals"
    /\ i < nprocs
    /\ \/ /\ workers' = Append(workers, LocalWorker(i))
          /\ i' = i + 1
          /\ UNCHANGED <<pc, exc>>
       \/ /\ \E t \in ExcTypes : Throw(Exc(t, "LocalWorker", -1))
          /\ UNCHANGED <<workers, i>>
    /\ UNCHANGED <<envVars, loaderVars, optind, optVars, appenders, hosts,
                   stream, started, streams, warnings, retval, helpCount, cerr>>

\* faulty variant: only an empty host is rejected, further tokens are ignored
DirectSpec_lenient(hostName) ==
    LET tokens == tokenize(hostName, {":"})
    IN  IF Len(tokens) = 0
        THEN [invalid |-> TRUE, stream |-> NoStream]
        ELSE IF Len(tokens) >= 2
        THEN LET r == strtol(tokens[2])
             IN  IF EndPtrNotNul(tokens[2], r)
                 THEN [invalid |-> TRUE, stream |-> NoStream]
                 ELSE [invalid |-> FALSE, stream |-> SocketStream(tokens[1], r.val)]
        ELSE [invalid |-> FALSE, stream |-> SocketStream(tokens[1], MTS_DEFAULT_PORT)]

\* a host without '@': host[:port], a direct connection
DirectSpec(hostName) ==
    LET tokens == tokenize(hostName, {":"})
    IN  IF Len(tokens) = 0 \/ Len(tokens) > 2
        THEN [invalid |-> TRUE, stream |-> NoStream]
        ELSE IF Len(tokens) = 2
        THEN LET r == strtol(tokens[2])
             IN  IF EndPtrNotNul(tokens[2], r)
                 THEN [invalid |-> TRUE, stream |-> NoStream]
                 ELSE [invalid |-> FALSE, stream |-> SocketStream(tokens[1], r.val)]
        ELSE [invalid |-> FALSE, stream |-> SocketStream(tokens[1], MTS_DEFAULT_PORT)]

\* faulty variant: tokens after the third are ignored
TunnelSpec_lenient(hostName) ==
    LET tokens == tokenize(hostName, {"@", ":"})
    IN  IF Len(tokens) < 2
        THEN [invalid |-> TRUE, stream |-> NoStream]
        ELSE IF Len(tokens) >= 3
        THEN [invalid |-> FALSE, stream |-> SSHStream(tokens[1], tokens[2], tokens[3])]
        ELSE [invalid |-> FALSE, stream |-> SSHStream(tokens[1], tokens[2], DefaultPath)]

\* a host with '@': user@host[:path], an SSH connection
TunnelSpec(hostName) ==
    LET tokens == tokenize(hostName, {"@", ":"})
    IN  IF Len(tokens) < 2 \/ Len(tokens) > 3
        THEN [invalid |-> TRUE, stream |-> NoStream]
        ELSE IF Len(tokens) = 3
        THEN [invalid |-> FALSE, stream |-> SSHStream(tokens[1], tokens[2], tokens[3])]
        ELSE [invalid |-> FALSE, stream |-> SSHStream(tokens[1], tokens[2], DefaultPath)]

HostSpec(hostName) ==
    IF ~Contains(hostName, "@") THEN DirectSpec(hostName) ELSE TunnelSpec(hostName)

\* faulty variant: every host is validated as soon as the list is split
SplitHosts_validate ==
    /\ pc = "locals"
    /\ ~(i < nprocs)
    /\ hosts' = tokenize(networkHosts, {";"})
    /\ LET hs == tokenize(networkHosts, {";"})
           bad == {k \in 1..Len(hs) : HostSpec(hs[k]).invalid}
       IN  IF bad = {}
           THEN /\ i' = 0
                /\ pc' = "hosts"
                /\ UNCHANGED exc
           ELSE LET k == CHOOSE m \in bad : \A n \in bad : m <= n
                IN  /\ i' = k - 1
                    /\ Throw(Exc("runtime_error", "Invalid host specification", k - 1))
    /\ UNCHANGED <<envVars, loaderVars, optind, optVars, appenders, stream,
                   schedVars, retval, helpCount, cerr>>

\* the local workers are registered: hosts = tokenize(networkHosts, ";")
SplitHosts ==
    /\ pc = "locals"
    /\ ~(i < nprocs)
    /\ hosts' = tokenize(networkHosts, {";"})
    /\ i' = 0
    /\ pc' = "hosts"
    /\ UNCHANGED <<envVars, loaderVars, optind, optVars, appenders, stream,
                   schedVars, outVars>>

\* faulty variant: a stream that fails to open is reported and the loop goes on to
\* the next host
OpenStream_continue ==
    /\ pc = "hosts"
    /\ i < Len(hosts)
    /\ LET d == HostSpec(hosts[i + 1])
       IN  \/ /\ d.invalid
              /\ Throw(Exc("runtime_error", "Invalid host specification", i))
              /\ UNCHANGED <<stream, streams, i>>
           \/ /\ ~d.invalid
              /\ stream' = d.stream
              /\ streams' = Append(streams, [host |-> i, stream |-> d.stream, open |-> TRUE])
              /\ pc' = "register"
              /\ UNCHANGED <<exc, i>>
           \/ /\ ~d.invalid
              /\ streams' = Append(streams, [host |-> i, stream |-> d.stream, open |-> FALSE])
              /\ exc' = Exc("runtime_error", "stream", i)
              /\ i' = i + 1
              /\ UNCHANGED <<stream, pc>>
    /\ UNCHANGED <<envVars, loaderVars, optind, optVars, appenders, hosts,
                   workers, started, warnings, retval, helpCount, cerr>>

\* the body of the host loop up to the stream: the host is validated and its
\* stream constructed, outside the try block that guards the registration
OpenStream ==
    /\ pc = "hosts"
    /\ i < Len(hosts)
    /\ LET d == HostSpec(hosts[i + 1])
       IN  \/ /\ d.invalid
              /\ Throw(Exc("runtime_error", "Invalid host specification", i))
              /\ UNCHANGED <<stream, streams>>
           \/ /\ ~d.invalid
              /\ stream' = d.stream
              /\ streams' = Append(streams, [host |-> i, stream |-> d.stream, open |-> TRUE])
              /\ pc' = "register"
              /\ UNCHANGED exc
           \/ /\ ~d.invalid
              /\ streams' = Append(streams, [host |-> i, stream |-> d.stream, open |-> FALSE])
              /\ Throw(Exc("runtime_error", "stream", i))
              /\ UNCHANGED stream
    /\ UNCHANGED <<envVars, loaderVars, optind, optVars, appenders, hosts, i,
                   workers, started, warnings, retval, helpCount, cerr>>

\* try { registerWorker(new RemoteWorker("net%i", stream)) }
\* catch (std::runtime_error &e) { SSH hint if the host has an '@'; throw e; }
RegisterRemote ==
    /\ pc = "register"
    /\ \/ /\ workers' = Append(workers, RemoteWorker(i, stream))
          /\ i' = i + 1
          /\ pc' = "hosts"
          /\ UNCHANGED <<exc, warnings>>
       \/ /\ \E t \in ExcTypes :
                /\ Throw(Exc(t, "RemoteWorker", i))
                /\ warnings' = IF t = "runtime_error" /\ Contains(hosts[i + 1], "@")
                               THEN warnings + 1 ELSE warnings
          /\ UNCHANGED <<workers, i>>
    /\ UNCHANGED <<envVars, loaderVars, optind, optVars, appenders, hosts,
                   stream, started, streams, retval, helpCount, cerr>>

\* faulty variant: the scheduler is started while hosts are still to be connected
StartScheduler_early ==
    /\ pc = "hosts"
    /\ started' = started + 1
    /\ pc' = "check"
    /\ UNCHANGED <<envVars, loaderVars, optind, optVars, appenders, loopVars,
                   workers, streams, warnings, outVars>>

\* every host is connected: scheduler->start()
StartScheduler ==
    /\ pc = "hosts"
    /\ ~(i < Len(hosts))
    /\ started' = started + 1
    /\ pc' = "check"
    /\ UNCHANGED <<envVars, loaderVars, optind, optVars, appenders, loopVars,
                   workers, streams, warnings, outVars>>

\* faulty variant: the utility name is looked for before the workers are set up
NoUtilityName_first ==
    /\ pc = "locals"
    /\ argc <= optind
    /\ cerr' = Append(cerr, "A utility name must be supplied!")
    /\ retval' = -1
    /\ pc' = "done"
    /\ UNCHANGED <<envVars, loaderVars, optind, optVars, appenders, loopVars,
                   schedVars, exc, helpCount>>

\* argc <= optind: "A utility name must be supplied!", return -1
NoUtilityName ==
    /\ pc = "check"
    /\ argc <= optind
    /\ cerr' = Append(cerr, "A utility name must be supplied!")
    /\ retval' = -1
    /\ pc' = "done"
    /\ UNCHANGED <<envVars, loaderVars, optind, optVars, appenders, loopVars,
                   schedVars, exc, helpCount>>

\* the utility named by argv[optind] is created through the plugin manager;
\* the try block ends and ubi_main returns 0
CreateUtility ==
    /\ pc = "check"
    /\ ~(argc <= optind)
    /\ \/ /\ retval' = 0
          /\ pc' = "done"
          /\ UNCHANGED exc
       \/ /\ \E t \in ExcTypes : Throw(Exc(t, "createObject", -1))
          /\ UNCHANGED retval
    /\ UNCHANGED <<envVars, loaderVars, optind, optVars, appenders, loopVars,
                   schedVars, helpCount, cerr>>

\* faulty variant: the handlers unregister the workers registered so far
Catch_rollback ==
    /\ pc = "catch"
    /\ cerr' = Append(cerr, "Caught a critical exeption")
    /\ retval' = 0
    /\ pc' = "done"
    /\ workers' = <<>>
    /\ UNCHANGED <<envVars, loaderVars, optind, optVars, appenders, loopVars,
                   started, streams, warnings, exc, helpCount>>

\* catch (const std::exception &e) / catch (...): the message goes to
\* std::cerr, control leaves the handlers and reaches "return 0"
Catch ==
    /\ pc = "catch"
    /\ cerr' = Append(cerr, "Caught a critical exeption")
    /\ retval' = 0
    /\ pc' = "done"
    /\ UNCHANGED <<envVars, loaderVars, optind, optVars, appenders, loopVars,
                   schedVars, exc, helpCount>>

MainNext ==
    \/ ShowUsage \/ Enter
    \/ OptA \/ OptC \/ OptS \/ OptN \/ OptV \/ OptP \/ OptQ \/ OptH
    \/ ConfigureLogging
    \/ RegisterLocal \/ SplitHosts
    \/ OpenStream \/ RegisterRemote \/ StartScheduler
    \/ NoUtilityName \/ CreateUtility
    \/ Catch

(***************************************************************************)
(* UtilityPlugin.                                                          *)
(***************************************************************************)
Paths == {"p", "q"}
Symbols == {"GetDescription", "CreateInstance"}
MissingModule == [exists |-> FALSE, exports |-> {}]
ModuleKinds ==
    {MissingModule} \cup {[exists |-> TRUE, exports |-> e] : e \in SUBSET Symbols}

\* a call of an accessor of plugin k: the state of the plugin at the call,
\* the member the call goes through, the entry point of the module that ran
\* and how the call ended
Call(k, fn, state, via, entry, outcome) ==
    [k |-> k, fn |-> fn, state |-> state, via |-> via, entry |-> entry,
     outcome |-> outcome]

NoCall == Call(0, "none", "none", "none", "none", "none")

LoaderIdle ==
    /\ called = NoCall
    /\ plugins = <<>>
    /\ lpc = "idle"
    /\ cur = 0
    /\ osOpen = {}
    /\ refreshed = 0
    /\ inflight = NoExc
    /\ lexc = NoExc

SetPlugin(k, field, v) == [plugins EXCEPT ![k] = [@ EXCEPT ![field] = v]]

\* dlclose(m_handle) of plugin k
CloseHandle(k) ==
    /\ osOpen' = osOpen \ {k}
    /\ plugins' = [plugins EXCEPT ![k] = [@ EXCEPT !.closes = @ + 1,
                                                   !.state = "Closed"]]

\* UtilityPlugin(path) up to the try block: m_handle = dlopen(path); a null
\* handle is an error, thrown before the try block is entered
Construct(path) ==
    /\ lpc = "idle"
    /\ Len(plugins) < MaxLoads
    /\ cur' = Len(plugins) + 1
    /\ \/ /\ modules[path].exists
          /\ plugins' = Append(plugins,
                [path |-> path, state |-> "Opened", opened |-> TRUE,
                 m_getDescription |-> FALSE, m_createInstance |-> FALSE,
                 closes |-> 0, before |-> Cardinality(osOpen),
                 refreshes |-> 0, returned |-> FALSE])
          /\ osOpen' = osOpen \cup {Len(plugins) + 1}
          /\ lpc' = "GetDescription"
          /\ lexc' = NoExc
       \/ /\ ~modules[path].exists
          /\ plugins' = Append(plugins,
                [path |-> path, state |-> "OpenFailed", opened |-> FALSE,
                 m_getDescription |-> FALSE, m_createInstance |-> FALSE,
                 closes |-> 0, before |-> Cardinality(osOpen),
                 refreshes |-> 0, returned |-> FALSE])
          /\ lexc' = RuntimeError("Error while loading plugin")
          /\ UNCHANGED <<osOpen, lpc>>
    /\ UNCHANGED <<envVars, mainVars, modules, called, refreshed, inflight>>

\* getSymbol(sym): dlsym, a null result is an error
getSymbol(path, sym) == sym \in modules[path].exports

\* m_getDescription = getSymbol("GetDescription"), inside the try block
ResolveGetDescription ==
    /\ lpc = "GetDescription"
    /\ \/ /\ getSymbol(plugins[cur].path, "GetDescription")
          /\ plugins' = SetPlugin(cur, "m_getDescription", TRUE)
          /\ lpc' = "CreateInstance"
          /\ UNCHANGED inflight
       \/ /\ ~getSymbol(plugins[cur].path, "GetDescription")
          /\ inflight' = RuntimeError("Could not resolve symbol GetDescription")
          /\ lpc' = "catch"
          /\ UNCHANGED plugins
    /\ UNCHANGED <<envVars, mainVars, modules, called, cur, osOpen, refreshed, lexc>>

\* faulty variant: the class registry is refreshed before the second entry point is
\* looked up
ResolveCreateInstance_refresh ==
    /\ lpc = "CreateInstance"
    /\ refreshed' = refreshed + 1
    /\ \/ /\ getSymbol(plugins[cur].path, "CreateInstance")
          /\ plugins' = [plugins EXCEPT ![cur] = [@ EXCEPT !.m_createInstance = TRUE,
                                                           !.state = "Ready",
                                                           !.refreshes = @ + 1,
                                                           !.returned = TRUE]]
          /\ lpc' = "idle"
          /\ UNCHANGED inflight
       \/ /\ ~getSymbol(plugins[cur].path, "CreateInstance")
          /\ plugins' = SetPlugin(cur, "refreshes", plugins[cur].refreshes + 1)
          /\ inflight' = RuntimeError("Could not resolve symbol CreateInstance")
          /\ lpc' = "catch"
    /\ UNCHANGED <<envVars, mainVars, modules, called, cur, osOpen, lexc>>

\* m_createInstance = getSymbol("CreateInstance"), inside the try block
ResolveCreateInstance ==
    /\ lpc = "CreateInstance"
    /\ \/ /\ getSymbol(plugins[cur].path, "CreateInstance")
          /\ plugins' = SetPlugin(cur, "m_createInstance", TRUE)
          /\ lpc' = "staticInitialization"
          /\ UNCHANGED inflight
       \/ /\ ~getSymbol(plugins[cur].path, "CreateInstance")
          /\ inflight' = RuntimeError("Could not resolve symbol CreateInstance")
          /\ lpc' = "catch"
          /\ UNCHANGED plugins
    /\ UNCHANGED <<envVars, mainVars, modules, called, cur, osOpen, refreshed, lexc>>

\* faulty variant: the handler rethrows without closing the handle
Rollback_leak ==
    /\ lpc = "catch"
    /\ plugins' = SetPlugin(cur, "state", "Closed")
    /\ lexc' = inflight
    /\ inflight' = NoExc
    /\ lpc' = "idle"
    /\ UNCHANGED <<envVars, mainVars, modules, called, cur, osOpen, refreshed>>

\* catch (...) { dlclose(m_handle); throw; }
Rollback ==
    /\ lpc = "catch"
    /\ CloseHandle(cur)
    /\ lexc' = inflight
    /\ inflight' = NoExc
    /\ lpc' = "idle"
    /\ UNCHANGED <<envVars, mainVars, modules, called, cur, refreshed>>

\* Class::staticInitialization(); the constructor returns
StaticInitialization ==
    /\ lpc = "staticInitialization"
    /\ refreshed' = refreshed + 1
    /\ plugins' = [plugins EXCEPT ![cur] = [@ EXCEPT !.state = "Ready",
                                                     !.refreshes = @ + 1,
                                                     !.returned = TRUE]]
    /\ lpc' = "idle"
    /\ UNCHANGED <<envVars, mainVars, modules, called, cur, osOpen, inflight, lexc>>

\* faulty variant: the destructor also runs for a plugin whose constructor threw
Destroy_always(k) ==
    /\ lpc = "idle"
    /\ plugins[k].state \in {"Ready", "Closed"}
    /\ plugins[k].closes < 2
    /\ CloseHandle(k)
    /\ UNCHANGED <<envVars, mainVars, modules, called, lpc, cur, refreshed, inflight, lexc>>

\* ~UtilityPlugin() of a constructed plugin: dlclose(m_handle)
Destroy(k) ==
    /\ lpc = "idle"
    /\ plugins[k].state = "Ready"
    /\ CloseHandle(k)
    /\ UNCHANGED <<envVars, mainVars, modules, called, lpc, cur, refreshed, inflight, lexc>>

\* getDescription() of a plugin whose constructor returned: the call goes
\* through m_getDescription with no test of the handle. After the destructor
\* the object and the module are gone and the call is undefined: the entry
\* point runs where the module is still mapped, the process dies otherwise.
getDescription(k) ==
    /\ lpc = "idle"
    /\ plugins[k].returned
    /\ \/ /\ plugins[k].state = "Ready"
          /\ called' = Call(k, "getDescription", "Ready", "m_getDescription",
                            "GetDescription", "returned")
       \/ /\ plugins[k].state = "Closed"
          /\ \/ called' = Call(k, "getDescription", "Closed", "m_getDescription",
                               "GetDescription", "returned")
             \/ called' = Call(k, "getDescription", "Closed", "m_getDescription",
                               "none", "crash")
    /\ UNCHANGED <<envVars, mainVars, modules, plugins, lpc, cur, osOpen,
                   refreshed, inflight, lexc>>

\* createInstance(us) of a plugin whose constructor returned: the call goes
\* through m_createUtility, which the constructor never assigns (it assigns
\* m_createInstance), with no test of the handle: the value called is
\* indeterminate, so any entry point may run or the process dies.
createInstance(k) ==
    /\ lpc = "idle"
    /\ plugins[k].returned
    /\ \/ \E e \in Symbols :
             called' = Call(k, "createInstance", plugins[k].state,
                            "m_createUtility", e, "returned")
       \/ called' = Call(k, "createInstance", plugins[k].state,
                         "m_createUtility", "none", "crash")
    /\ UNCHANGED <<envVars, mainVars, modules, plugins, lpc, cur, osOpen,
                   refreshed, inflight, lexc>>

LoaderNext ==
    \/ \E path \in Paths : Construct(path)
    \/ ResolveGetDescription
    \/ ResolveCreateInstance
    \/ Rollback
    \/ StaticInitialization
    \/ \E k \in 1..Len(plugins) : Destroy(k)
    \/ \E k \in 1..Len(plugins) : getDescription(k)
    \/ \E k \in 1..Len(plugins) : createInstance(k)

(***************************************************************************)
(* Specifications.                                                         *)
(***************************************************************************)
\* ubi_main on every command line of CmdLines
Init ==
    /\ opts \in CmdLines
    /\ hasUtility \in BOOLEAN
    /\ processorCount \in 1..MaxProcs
    /\ MainInit
    /\ modules = [p \in Paths |-> MissingModule]
    /\ LoaderIdle

Next == MainNext

Spec == Init /\ [][Next]_vars

\* UtilityPlugin objects constructed and destroyed over every assignment of
\* modules to paths
LoaderInit ==
    /\ opts = <<>>
    /\ hasUtility = FALSE
    /\ processorCount = MaxProcs
    /\ MainInit
    /\ modules \in [Paths -> ModuleKinds]
    /\ LoaderIdle

LoaderSpec == LoaderInit /\ [][LoaderNext]_vars

(***************************************************************************)
(* Properties of the worker-pool assembly.                                 *)
(***************************************************************************)
IsPrefix(s, t) == Len(s) <= Len(t) /\ SubSeq(t, 1, Len(s)) = s

Names(ws) == [k \in 1..Len(ws) |-> ws[k].name]
\* wrk0 .. wrk{n-1}; nothing when n <= 0
LocalNames(n) == [k \in 1..n |-> WorkerName("wrk", k - 1)]
\* net0 .. net{k-1}
RemoteNames(n) == [k \in 1..n |-> WorkerName("net", k - 1)]

\* the descriptors of the run: the host texts between the ';' of networkHosts
Descriptors == tokenize(networkHosts, {";"})

\* the failures of the assembly: a descriptor that does not validate, a
\* transport that does not open, a worker that does not register
AssemblyErrors ==
    {"Invalid host specification", "stream", "RemoteWorker", "LocalWorker"}
\* those raised while a descriptor is processed
DescriptorErrors == {"Invalid host specification", "stream", "RemoteWorker"}

\* C1: Scheduler.start() is called at most once, and only when every local
\* worker and every remote worker is registered and every transport is open;
\* after a failed validation, transport open or registration it is never
\* called.
C1_StartOnlyAfterFullAssembly ==
    /\ started <= 1
    /\ started = 1 =>
          /\ Names(workers) = LocalNames(nprocs) \o RemoteNames(Len(Descriptors))
          /\ Len(streams) = Len(Descriptors)
          /\ \A k \in 1..Len(streams) : streams[k].open
          /\ exc.what \notin AssemblyErrors
    /\ exc.what \in AssemblyErrors => started = 0

\* the scheduler is started over a pool of local and remote workers
C1_Witness ==
    /\ started = 1
    /\ nprocs >= 1
    /\ Len(Descriptors) >= 2

\* C2: when the transport of descriptor i does not open, or net{i} does not
\* register, no transport is opened and no worker registered for any later
\* descriptor, and the scheduler is not started.
C2_FailFast ==
    exc.what \in {"stream", "RemoteWorker"} =>
        /\ \A k \in 1..Len(streams) : streams[k].host <= exc.at
        /\ \A k \in 1..Len(workers) :
              workers[k].name.kind = "net" => workers[k].name.id < exc.at
        /\ started = 0

\* the first of two descriptors fails to open and the run has ended
C2_Witness ==
    /\ pc = "done"
    /\ exc.what = "stream"
    /\ exc.at = 0
    /\ Len(hosts) >= 2

\* C3: the workers are registered as wrk0 .. wrk{n-1}, then net0 .. net{k-1};
\* a run that reaches the scheduler start has registered exactly these; with
\* n <= 0 no local worker is registered and none fails, with no descriptor
\* the scheduler is started all the same.
C3_RegistrationOrder ==
    /\ pc \notin {"entry", "getopt"} =>
          IsPrefix(Names(workers),
                   LocalNames(nprocs) \o RemoteNames(Len(Descriptors)))
    /\ pc \in {"entry", "getopt"} => workers = <<>>
    /\ started = 1 =>
          Names(workers) = LocalNames(nprocs) \o RemoteNames(Len(Descriptors))
    /\ nprocs <= 0 =>
          /\ \A k \in 1..Len(workers) : workers[k].name.kind # "wrk"
          /\ exc.what # "LocalWorker"
    /\ (pc = "done" /\ exc = NoExc /\ helpCount = 0) => started = 1

\* two local and two remote workers are registered and the scheduler started
C3_Witness ==
    /\ started = 1
    /\ Names(workers) = <<WorkerName("wrk", 0), WorkerName("wrk", 1),
                          WorkerName("net", 0), WorkerName("net", 1)>>

C4_Registered ==
    exc.what \in DescriptorErrors =>
        Names(workers) = LocalNames(nprocs) \o RemoteNames(exc.at)

\* C4: when the assembly aborts on descriptor i the registered workers are
\* wrk0 .. wrk{n-1} and net0 .. net{i-1}, and no step of the bootstrap ever
\* removes a registered worker.
C4_NoRollback ==
    [][IsPrefix(workers, workers')]_vars /\ []C4_Registered

\* the second descriptor fails after a local and a remote worker registered,
\* and the error has been handled
C4_Witness ==
    /\ pc = "done"
    /\ exc.what \in DescriptorErrors
    /\ exc.at = 1
    /\ nprocs >= 1

\* C5: when the transport of a descriptor does not open, or its worker does
\* not register, the passwordless-authentication hint is logged if the
\* descriptor has an '@' and not otherwise, and the failure aborts the
\* assembly.
C5_TunnelHint ==
    exc.what \in {"stream", "RemoteWorker"} =>
        /\ Contains(hosts[exc.at + 1], "@") => warnings >= 1
        /\ ~Contains(hosts[exc.at + 1], "@") => warnings = 0
        /\ pc \in {"catch", "done"}
        /\ started = 0

(***************************************************************************)
(* Properties of the exit status.                                          *)
(***************************************************************************)
\* C9: ubi_main returns 0 when the help text is shown or the run completes,
\* -1 when the run reaches the utility and none is named, and a non-zero
\* status when an exception reaches the handlers of ubi_main.
C9_ExitStatus ==
    pc = "done" =>
        /\ helpCount > 0 => retval = 0
        /\ (helpCount = 0 /\ exc = NoExc /\ hasUtility) => retval = 0
        /\ (helpCount = 0 /\ exc = NoExc /\ ~hasUtility) => retval = -1
        /\ exc # NoExc => retval # 0

(***************************************************************************)
(* Properties of the host descriptors.                                     *)
(***************************************************************************)
AllDigits(p) == \A k \in 1..Len(p) : p[k] \in Digits

RECURSIVE Decimal(_)
Decimal(p) ==
    IF p = <<>> THEN 0
    ELSE Decimal(SubSeq(p, 1, Len(p) - 1)) * 10 + DigitVal(p[Len(p)])

\* the transports constructed for descriptor k (0-based)
StreamsOf(k) == {streams[m].stream : m \in {n \in 1..Len(streams) : streams[n].host = k}}

\* descriptor k has been validated: a stream was constructed for it or its
\* validation raised the error
Validated(k) == i > k \/ (i = k /\ (pc = "register" \/ exc.at = k))

\* C10: a descriptor without '@' that splits on ':' into one token h makes a
\* socket to h at the default port, into two tokens h, p with p numeric a
\* socket to h at port p; with no token or more than two it raises the
\* invalid-host error and no transport is constructed for it.
C10_DirectDescriptor ==
    \A k \in 0..(Len(hosts) - 1) :
        LET hostName == hosts[k + 1]
            toks == tokenize(hostName, {":"})
        IN  ~Contains(hostName, "@") =>
              /\ Len(toks) = 1 =>
                    /\ StreamsOf(k) \subseteq {SocketStream(toks[1], MTS_DEFAULT_PORT)}
                    /\ Validated(k) => StreamsOf(k) # {}
              /\ (Len(toks) = 2 /\ AllDigits(toks[2])) =>
                    /\ StreamsOf(k) \subseteq {SocketStream(toks[1], Decimal(toks[2]))}
                    /\ Validated(k) => StreamsOf(k) # {}
              /\ Len(toks) \notin {1, 2} =>
                    /\ StreamsOf(k) = {}
                    /\ i <= k
                    /\ Validated(k) =>
                          exc = Exc("runtime_error", "Invalid host specification", k)

\* host:port is connected at its port and the next descriptor, which has no
\* token, is rejected
C10_Witness ==
    /\ pc = "done"
    /\ Len(hosts) = 2
    /\ hosts[1] = <<"a", ":", "1">>
    /\ StreamsOf(0) = {SocketStream(<<"a">>, 1)}
    /\ tokenize(hosts[2], {":"}) = <<>>
    /\ exc = Exc("runtime_error", "Invalid host specification", 1)

\* C11: a descriptor with '@' is split on '@' and ':' together and never
\* makes a socket: two tokens u, h make an SSH stream for u at h with the
\* path ~/mitsuba, three tokens u, h, path one with that path; with fewer
\* than two or more than three tokens it raises the invalid-host error and
\* no SSH stream is constructed for it.
C11_TunnelDescriptor ==
    \A k \in 0..(Len(hosts) - 1) :
        LET hostName == hosts[k + 1]
            toks == tokenize(hostName, {"@", ":"})
        IN  Contains(hostName, "@") =>
              /\ \A st \in StreamsOf(k) : st.type = "ssh"
              /\ Len(toks) = 2 =>
                    /\ StreamsOf(k) \subseteq
                          {SSHStream(toks[1], toks[2], <<"~", "/", "m", "i", "t", "s", "u", "b", "a">>)}
                    /\ Validated(k) => StreamsOf(k) # {}
              /\ Len(toks) = 3 =>
                    /\ StreamsOf(k) \subseteq {SSHStream(toks[1], toks[2], toks[3])}
                    /\ Validated(k) => StreamsOf(k) # {}
              /\ Len(toks) \notin {2, 3} =>
                    /\ StreamsOf(k) = {}
                    /\ i <= k
                    /\ Validated(k) =>
                          exc = Exc("runtime_error", "Invalid host specification", k)

\* user@host:path is connected with its path and registered as net0
C11_Witness ==
    /\ pc = "done"
    /\ hosts = <<<<"a", "@", "a", ":", "a">>>>
    /\ StreamsOf(0) = {SSHStream(<<"a">>, <<"a">>, <<"a">>)}
    /\ Names(workers)[Len(workers)] = WorkerName("net", 0)

\* descriptor k was rejected before any connection: no transport and no
\* net{k} worker exist for it, the loop never went past it, and once its
\* validation is over the invalid-host error is raised and the scheduler
\* is not started
Rejected(k) ==
    /\ StreamsOf(k) = {}
    /\ \A m \in 1..Len(workers) : workers[m].name # WorkerName("net", k)
    /\ i <= k
    /\ Validated(k) =>
          /\ exc = Exc("runtime_error", "Invalid host specification", k)
          /\ started = 0

\* blanks, then an optional sign, then one digit or more
SignedNumber(p) ==
    \E b \in 0..Len(p), sg \in 0..1 :
        /\ b + sg < Len(p)
        /\ \A j \in 1..b : p[j] = " "
        /\ sg = 1 => p[b + 1] \in {"+", "-"}
        /\ \A j \in (b + sg + 1)..Len(p) : p[j] \in Digits

\* C12 as stated: a descriptor without '@' of two tokens host:port whose
\* port token has a character that is no digit is rejected: no connection
\* is opened for it, no net{i} worker is registered for it and the
\* scheduler is not started.
C12_NonDigitPort ==
    \A k \in 0..(Len(hosts) - 1) :
        LET hostName == hosts[k + 1]
            toks == tokenize(hostName, {":"})
        IN  (~Contains(hostName, "@") /\ Len(toks) = 2 /\ ~AllDigits(toks[2]))
                => Rejected(k)

\* C12: a descriptor without '@' of two tokens host:port whose port token
\* is not blanks, an optional sign and then digits only is rejected: no
\* connection is opened for it, no net{i} worker is registered for it and
\* the scheduler is not started.
C12_InvalidPort ==
    \A k \in 0..(Len(hosts) - 1) :
        LET hostName == hosts[k + 1]
            toks == tokenize(hostName, {":"})
        IN  (~Contains(hostName, "@") /\ Len(toks) = 2 /\ ~SignedNumber(toks[2]))
                => Rejected(k)

\* the port 1a has ended the run with the error, local workers only
C12_Witness ==
    /\ pc = "done"
    /\ hosts = <<<<"a", ":", "1", "a">>>>
    /\ exc = Exc("runtime_error", "Invalid host specification", 0)
    /\ Len(workers) = nprocs
    /\ streams = <<>>
    /\ started = 0

\* the descriptors one word of a host file gives
WordHosts(w) == IF w = <<>> \/ w[1] = "#" THEN <<>> ELSE tokenize(w, {";"})

RECURSIVE WordsHosts(_)
WordsHosts(ws) ==
    IF ws = <<>> THEN <<>> ELSE WordHosts(Head(ws)) \o WordsHosts(Tail(ws))

\* the descriptors one option gives: the ;-separated hosts of -c, the
\* hosts of a readable -s file, none for any other option
OptionHosts(o) ==
    IF o.opt = "c" THEN tokenize(o.arg, {";"})
    ELSE IF o.opt = "s" /\ o.file.ok THEN WordsHosts(FileWords(o.file.lines))
    ELSE <<>>

\* the descriptors of a sequence of options, option by option
RECURSIVE InOrder(_)
InOrder(os) ==
    IF os = <<>> THEN <<>> ELSE OptionHosts(Head(os)) \o InOrder(Tail(os))

IsC(o) == o.opt = "c"
IsS(o) == o.opt = "s"

\* the remote loop has the descriptor sequence
HostsSplit == pc \in {"hosts", "register", "check"} \/ started = 1

\* an empty host text gives no descriptor, no transport and no error of a
\* descriptor
EmptyHostText ==
    (Descriptors = <<>> /\ pc \notin {"entry", "getopt", "locals"}) =>
        /\ hosts = <<>>
        /\ streams = <<>>
        /\ exc.what \notin DescriptorErrors

\* C13 as stated: the descriptor sequence of the remote loop is the hosts of
\* all -c options, in their order, followed by the hosts of all -s options,
\* in their order, whatever the order of the options; an empty host text
\* gives an empty sequence and no error.
C13_CommandLineFirst ==
    /\ HostsSplit => hosts = InOrder(SelectSeq(opts, IsC)) \o InOrder(SelectSeq(opts, IsS))
    /\ EmptyHostText

\* C13: the descriptor sequence of the remote loop is the hosts of the -c
\* and -s options in the order of these options on the command line, each
\* option's hosts in their own order (at any moment the host text holds
\* those of the options read so far); an empty host text gives an empty
\* sequence and no error.
C13_OptionOrder ==
    /\ Descriptors = InOrder(SubSeq(opts, 1, optind - 1))
    /\ HostsSplit => hosts = InOrder(opts)
    /\ EmptyHostText

\* -s before -c: the host of the file is net0, the one of -c is net1
C13_Witness ==
    /\ Len(opts) = 2
    /\ opts[1].opt = "s"
    /\ opts[2].opt = "c"
    /\ hosts = <<<<"a">>, <<"1">>>>
    /\ started = 1
    /\ StreamsOf(0) = {SocketStream(<<"a">>, MTS_DEFAULT_PORT)}
    /\ StreamsOf(1) = {SocketStream(<<"1">>, MTS_DEFAULT_PORT)}

\* the text of a line: its words with one blank between them
RECURSIVE LineText(_)
LineText(ln) ==
    IF Len(ln) <= 1 THEN (IF ln = <<>> THEN <<>> ELSE ln[1])
    ELSE Head(ln) \o <<" ">> \o LineText(Tail(ln))

\* the descriptors of a host file read line by line: none for an empty line
\* or a line whose first character is '#', the line itself otherwise
RECURSIVE LinesHosts(_)
LinesHosts(ls) ==
    IF ls = <<>> THEN <<>>
    ELSE LET text == LineText(Head(ls))
         IN  (IF text = <<>> \/ text[1] = "#" THEN <<>> ELSE <<text>>)
                 \o LinesHosts(Tail(ls))

\* C14: the hosts a lone -s option gives are those of its file line by line:
\* a line that is empty or whose first character is '#' gives none,
\* whatever follows on it, and every other line gives exactly one, in file
\* order.
C14_OnePerLine ==
    (HostsSplit /\ Len(opts) = 1 /\ opts[1].opt = "s") =>
        hosts = LinesHosts(opts[1].file.lines)

\* nothing of the scheduling subsystem has been used
Untouched ==
    /\ workers = <<>>
    /\ streams = <<>>
    /\ started = 0

\* the run is over and it ended inside the option loop or before it: the
\* usage text was printed (too few arguments, -h, an unknown option) or the
\* error of -p or of -s was raised
EndedInOptions ==
    /\ pc \in {"catch", "done"}
    /\ \/ helpCount > 0
       \/ exc.what \in {"Could not parse the processor count!",
                        "Could not open host file!"}

\* C16: no worker is registered, no transport opened and the scheduler not
\* started before every option has been processed; a run that ends during
\* option processing (too few arguments, -h, an unknown option, a processor
\* count that does not parse, a host file that does not open) ends with no
\* worker, no transport and the scheduler not started.
C16_OptionsFirst ==
    /\ pc \in {"entry", "getopt"} => Untouched
    /\ ~Untouched => optind > Len(opts)
    /\ EndedInOptions => Untouched

\* a -c option gave a host, then the host file of -s did not open: the run
\* is over with nothing registered
C16_Witness ==
    /\ pc = "done"
    /\ exc = RuntimeError("Could not open host file!")
    /\ Descriptors # <<>>
    /\ optind = Len(opts) + 1
    /\ Untouched

\* C17: the run returns -1 for a missing utility name only after the
\* assembly and the start of the scheduler: every local worker wrk0.. and
\* every remote worker net0.. is registered, one open transport exists for
\* each descriptor, and the scheduler has been started once.
C17_NameCheckAfterStart ==
    (retval = -1 \/ \E m \in 1..Len(cerr) : cerr[m] = "A utility name must be supplied!") =>
        /\ pc = "done"
        /\ started = 1
        /\ exc = NoExc
        /\ hosts = Descriptors
        /\ Names(workers) = LocalNames(nprocs) \o RemoteNames(Len(hosts))
        /\ Len(streams) = Len(hosts)
        /\ \A m \in 1..Len(streams) : streams[m].open /\ streams[m].host = m - 1

\* no utility name after two options that name a host each: -1 is returned
\* with the local workers, net0 and net1 registered and the scheduler started
C17_Witness ==
    /\ retval = -1
    /\ pc = "done"
    /\ nprocs >= 1
    /\ Len(hosts) = 2
    /\ Len(workers) = nprocs + 2
    /\ started = 1

\* C18: a descriptor is validated when the loop reaches it: when the one at
\* position k raises the invalid-host error (bad token count or bad port),
\* the transports of the descriptors 0..k-1 are open and the workers
\* net0..net{k-1} registered.
C18_ValidationInterleaved ==
    exc.what = "Invalid host specification" =>
        LET k == exc.at
        IN  /\ k \in 0..(Len(hosts) - 1)
            /\ HostSpec(hosts[k + 1]).invalid
            /\ \A m \in 1..k : ~HostSpec(hosts[m]).invalid
            /\ i = k
            /\ Len(streams) = k
            /\ \A m \in 1..k : /\ streams[m].open
                                /\ streams[m].host = m - 1
                                /\ streams[m].stream = HostSpec(hosts[m]).stream
            /\ Len(workers) >= k
            /\ SubSeq(Names(workers), Len(workers) - k + 1, Len(workers)) = RemoteNames(k)
            /\ started = 0

\* a;1:a : the bad port of the second descriptor is found after the socket
\* to a is open and net0 registered
C18_Witness ==
    /\ pc = "done"
    /\ hosts = <<<<"a">>, <<"1", ":", "a">>>>
    /\ exc = Exc("runtime_error", "Invalid host specification", 1)
    /\ streams = <<[host |-> 0, stream |-> SocketStream(<<"a">>, MTS_DEFAULT_PORT), open |-> TRUE]>>
    /\ Names(workers)[Len(workers)] = WorkerName("net", 0)

(***************************************************************************)
(* Properties of UtilityPlugin.                                            *)
(***************************************************************************)
\* the constructor of plugin k has ended, by returning or by throwing
Constructed(k) == k # cur \/ lpc = "idle"

\* the constructor of plugin k opened the module and failed on a symbol
SymbolFailure(k) ==
    /\ Constructed(k)
    /\ plugins[k].opened
    /\ ~(plugins[k].m_getDescription /\ plugins[k].m_createInstance)

C6_Closed ==
    /\ \A k \in 1..Len(plugins) :
          SymbolFailure(k) =>
              /\ plugins[k].closes = 1
              /\ k \notin osOpen
              /\ ~plugins[k].returned
              /\ plugins[k].state = "Closed"
    /\ lexc # NoExc => cur \notin osOpen
    /\ lpc = "idle" =>
          osOpen = {k \in 1..Len(plugins) : plugins[k].state = "Ready"}

\* C6: when dlopen succeeds and either entry point does not resolve, the
\* handle is closed before the exception leaves the constructor, the caller
\* gets no plugin, and as many handles are open after the failed load as
\* before it.
C6_RollbackOnSymbolFailure ==
    /\ []C6_Closed
    /\ [][lpc = "catch" =>
             /\ lexc' # NoExc
             /\ ~plugins'[cur].returned
             /\ Cardinality(osOpen') = plugins[cur].before]_vars

\* CreateInstance failed after GetDescription resolved, and the same path
\* was opened again afterwards
C6_Witness ==
    \E k, m \in 1..Len(plugins) :
        /\ k < m
        /\ plugins[k].path = plugins[m].path
        /\ plugins[k].m_getDescription
        /\ plugins[k].state = "Closed"
        /\ ~plugins[k].returned
        /\ plugins[m].opened

C7_Once ==
    \A k \in 1..Len(plugins) :
        /\ plugins[k].closes <= 1
        /\ plugins[k].closes = 1 <=> plugins[k].state = "Closed"
        /\ ~plugins[k].opened => plugins[k].closes = 0 /\ plugins[k].state = "OpenFailed"
        /\ k \in osOpen <=> (plugins[k].opened /\ plugins[k].closes = 0)
        /\ (Constructed(k) /\ plugins[k].opened /\ ~plugins[k].returned) =>
              plugins[k].closes = 1

\* C7: the handle of a successful dlopen is closed exactly once, by the
\* rollback of the constructor or by the destructor, never by both and never
\* twice; a failed dlopen is never closed; a closed plugin changes no more.
C7_ClosedExactlyOnce ==
    /\ []C7_Once
    /\ [][\A k \in 1..Len(plugins) :
             plugins[k].state = "Closed" => plugins'[k] = plugins[k]]_vars

\* one plugin closed by its destructor and one by the rollback
C7_Witness ==
    /\ \E k \in 1..Len(plugins) : plugins[k].returned /\ plugins[k].closes = 1
    /\ \E k \in 1..Len(plugins) : SymbolFailure(k) /\ plugins[k].closes = 1

RECURSIVE CountReturned(_)
CountReturned(k) ==
    IF k = 0 THEN 0
    ELSE CountReturned(k - 1) + (IF plugins[k].returned THEN 1 ELSE 0)

\* C8: the constructor calls Class::staticInitialization() exactly once in a
\* load that succeeds, after both entry points resolved, and never in a load
\* that fails at dlopen or at a symbol.
C8_RefreshOncePerLoad ==
    /\ refreshed = CountReturned(Len(plugins))
    /\ \A k \in 1..Len(plugins) :
          /\ plugins[k].refreshes <= 1
          /\ plugins[k].refreshes = 1 =>
                plugins[k].m_getDescription /\ plugins[k].m_createInstance
          /\ (Constructed(k) /\ plugins[k].m_getDescription
                /\ plugins[k].m_createInstance) => plugins[k].refreshes = 1
          /\ (~plugins[k].opened \/ SymbolFailure(k)) => plugins[k].refreshes = 0

\* two loads succeeded and one failed at the second symbol
C8_Witness ==
    /\ refreshed = 2
    /\ \E k \in 1..Len(plugins) : SymbolFailure(k) /\ plugins[k].m_getDescription

\* the entry point an accessor stands for
EntryOf(fn) == IF fn = "getDescription" THEN "GetDescription" ELSE "CreateInstance"

\* C15: getDescription() and createInstance() of a Ready plugin run the
\* entry point the constructor resolved for them and return its result; on
\* a Closed plugin either fails without a call into the unloaded module.
C15_Forwarding ==
    called # NoCall =>
        /\ called.state = "Ready" =>
              /\ called.entry = EntryOf(called.fn)
              /\ called.outcome = "returned"
        /\ called.state = "Closed" =>
              /\ called.entry = "none"
              /\ called.outcome = "failed"

====
